---- MODULE Spec2Model ----
(***************************************************************************)
(* Sleep-cycle scheduling and actuation controller of                      *)
(* eightsleep-nosub-app (the temperatureCron route and its three sibling   *)
(* versions).                                                              *)
(*                                                                         *)
(* Dates are wall-clock timestamps of the user's local time, counted in    *)
(* minutes; day d starts at d * 24 * 60.  Daylight-saving shifts and the   *)
(* seconds of the reference instant are not modelled.                      *)
(***************************************************************************)
EXTENDS Integers, Sequences, FiniteSets, TLC

VARIABLES
    variant,            \* which source file runs
    pc,                 \* position of the run
    testMode,           \* testMode?.enabled
    userNow,            \* reference instant in the user's local time
    profile,            \* the row being processed
    adjustedCycle,      \* boundaries handed to the classifier
    currentSleepStage,  \* stage tag detected for userNow
    targetLevel,        \* target level, when one is resolved
    authHeader,         \* the request's authorization header
    cronSecret,         \* process.env.CRON_SECRET
    authorized,         \* GET let the request through
    fetch,              \* outcome of the profile query
    profileCount,       \* rows the profile query returned
    idx,                \* rows the loop has taken so far
    token,              \* credential the row's calls use
    persisted,          \* the refreshed credential was written back
    device,             \* what the bed of the current row really does
    heatingStatus,      \* what the evaluation takes the bed's state to be
    retryI,             \* loop index i of the retryApiCall in progress
    waits,              \* backoff delays (ms) of the retryApiCall in progress
    log,                \* device calls the current row's evaluation has made
    threw,              \* error the current row's try block caught
    caught,             \* rows whose catch block ran
    bodyRuns,           \* per row, how often the loop body started
    failures,           \* collaborator calls that failed in this run
    propagated,         \* adjustTemperature threw to its caller
    response            \* what GET answered

stageVars == <<adjustedCycle, currentSleepStage, targetLevel>>
callVars == <<retryI, waits, log>>
runVars == <<authorized, fetch, profileCount, bodyRuns, propagated, response>>
inputVars == <<variant, testMode, userNow, authHeader, cronSecret>>

vars == <<variant, pc, testMode, userNow, authHeader, cronSecret, profile,
          adjustedCycle, currentSleepStage, targetLevel, authorized, fetch, profileCount, idx, token,
          persisted, device, heatingStatus, retryI, waits, log, threw,
          caught, bodyRuns, failures, propagated, response>>

(***************************************************************************)
(* The four versions of the controller.                                    *)
(***************************************************************************)
Route == "route.ts"
Part0 == "part_000"
Part1 == "part_001"
Part2 == "part_002"

Variants == {Route, Part0, Part1, Part2}

\* versions that create a warmingTime boundary
HasWarming(v) == v \in {Route, Part0}

\* versions that pass the boundaries through adjustTimeToCurrentCycle
Normalizes(v) == v \in {Route, Part0, Part1}

\* versions whose createDateWithTime rejects a malformed string
ChecksFormat(v) == v \in {Route, Part0, Part1}

\* versions whose createDateWithTime rejects hours/minutes out of range
ChecksRange(v) == v \in {Part0, Part1}

\* hours subtracted from bedTime for preHeatingTime
PreHeatHours(v) == IF v \in {Route, Part0} THEN 1 ELSE 3

DayMinutes == 24 * 60
HalfDayMinutes == 12 * 60

StartOfDay(date) == (date \div DayMinutes) * DayMinutes

Abs(x) == IF x < 0 THEN 0 - x ELSE x

(***************************************************************************)
(* A time string is what split(':').map(Number) makes of it: two numbers   *)
(* ("22:00"), a part that is not a number ("ab:cd"), or hours with no      *)
(* minutes ("22").                                                         *)
(***************************************************************************)
TimeString(h, m) == [kind |-> "numbers", hours |-> h, minutes |-> m]
NotANumber == [kind |-> "not a number", hours |-> 0, minutes |-> 0]
HoursOnly(h) == [kind |-> "hours only", hours |-> h, minutes |-> 0]

\* the condition under which createDateWithTime throws
InvalidTimeString(v, ts) ==
    \/ ChecksFormat(v) /\ ts.kind # "numbers"
    \/ ChecksRange(v) /\ ts.kind = "numbers"
         /\ (ts.hours < 0 \/ ts.hours > 23 \/ ts.minutes < 0 \/ ts.minutes > 59)

(***************************************************************************)
(* An Invalid Date (setHours(NaN)) compares false with everything and      *)
(* stays invalid under arithmetic.                                         *)
(***************************************************************************)
InvalidDate == 0 - 1000 * DayMinutes
IsDate(d) == d # InvalidDate
Before(a, b) == IsDate(a) /\ IsDate(b) /\ a < b
NotAfter(a, b) == IsDate(a) /\ IsDate(b) /\ a <= b
Plus(d, minutes) == IF IsDate(d) THEN d + minutes ELSE InvalidDate

\* setHours(hours, minutes, 0, 0) on a copy of baseDate; values out of range
\* roll over, a part that is not a number gives an Invalid Date
createDateWithTime(baseDate, ts) ==
    IF ts.kind = "not a number" THEN InvalidDate
    ELSE StartOfDay(baseDate) + ts.hours * 60 + ts.minutes

addDays(date, days) == Plus(date, days * DayMinutes)

\* mutant: the range is read as hours
isWithinTimeRangeHours(current, target, rangeMinutes) ==
    Abs(current - target) <= rangeMinutes * 60

\* Math.abs(current.getTime() - target.getTime()) <= rangeMinutes * 60 * 1000
isWithinTimeRange(current, target, rangeMinutes) ==
    Abs(current - target) <= rangeMinutes

createSleepCycle(v, baseDate, bedTimeStr, wakeupTimeStr) ==
    LET bedTime == createDateWithTime(baseDate, bedTimeStr)
        wake0 == createDateWithTime(baseDate, wakeupTimeStr)
        wakeupTime == IF NotAfter(wake0, bedTime) THEN addDays(wake0, 1) ELSE wake0
        base == [preHeatingTime |-> Plus(bedTime, 0 - PreHeatHours(v) * 60),
                 bedTime |-> bedTime,
                 midStageTime |-> Plus(bedTime, 60),
                 finalStageTime |-> Plus(wakeupTime, -120),
                 wakeupTime |-> wakeupTime]
    IN  IF HasWarming(v)
        THEN [preHeatingTime |-> base.preHeatingTime,
              bedTime |-> base.bedTime,
              midStageTime |-> base.midStageTime,
              finalStageTime |-> base.finalStageTime,
              warmingTime |-> Plus(wakeupTime, -30),
              wakeupTime |-> base.wakeupTime]
        ELSE base

\* mutant: the boundary is never moved back by a day
adjustTimeNoMoveBack(cycleStart, currentTime, timeInCycle) ==
    IF Before(timeInCycle, cycleStart) THEN addDays(timeInCycle, 1) ELSE timeInCycle

adjustTimeToCurrentCycle(cycleStart, currentTime, timeInCycle) ==
    LET adjustedTime == IF Before(timeInCycle, cycleStart)
                        THEN addDays(timeInCycle, 1) ELSE timeInCycle
    IN  IF Before(currentTime, adjustedTime)
           /\ adjustedTime - currentTime > HalfDayMinutes
        THEN addDays(adjustedTime, -1)
        ELSE adjustedTime

\* the cycle the stage tests read: normalized, except in part_002
AdjustCycle(v, now, sleepCycle) ==
    IF Normalizes(v)
    THEN [f \in DOMAIN sleepCycle |->
            adjustTimeToCurrentCycle(sleepCycle.preHeatingTime, now, sleepCycle[f])]
    ELSE sleepCycle

Outside == "outside sleep cycle"

InWindow(from, now, to) == NotAfter(from, now) /\ Before(now, to)

InPreHeating(c, now) == InWindow(c.preHeatingTime, now, c.bedTime)
InInitial(c, now) == InWindow(c.bedTime, now, c.midStageTime)
InMid(c, now) == InWindow(c.midStageTime, now, c.finalStageTime)
InFinalToWarming(c, now) == InWindow(c.finalStageTime, now, c.warmingTime)
InFinalToWakeup(c, now) == InWindow(c.finalStageTime, now, c.wakeupTime)
InWarming(c, now) == InWindow(c.warmingTime, now, c.wakeupTime)

\* route.ts tests the windows last to first
DetectStageRoute(c, now) ==
    IF InWarming(c, now) THEN "warming"
    ELSE IF InFinalToWarming(c, now) THEN "final"
    ELSE IF InMid(c, now) THEN "mid"
    ELSE IF InInitial(c, now) THEN "initial"
    ELSE IF InPreHeating(c, now) THEN "pre-heating"
    ELSE Outside

\* part_000 tests them first to last
DetectStagePart0(c, now) ==
    IF InPreHeating(c, now) THEN "pre-heating"
    ELSE IF InInitial(c, now) THEN "initial"
    ELSE IF InMid(c, now) THEN "mid"
    ELSE IF InFinalToWarming(c, now) THEN "final"
    ELSE IF InWarming(c, now) THEN "warming"
    ELSE Outside

\* part_001 and part_002: four windows, final runs up to wakeupTime
DetectStageWindows(c, now) ==
    IF InPreHeating(c, now) THEN "pre-heating"
    ELSE IF InInitial(c, now) THEN "initial"
    ELSE IF InMid(c, now) THEN "mid"
    ELSE IF InFinalToWakeup(c, now) THEN "final"
    ELSE Outside

DetectStage(v, c, now) ==
    IF v = Route THEN DetectStageRoute(c, now)
    ELSE IF v = Part0 THEN DetectStagePart0(c, now)
    ELSE DetectStageWindows(c, now)

(***************************************************************************)
(* Proximity flags and the target level.                                   *)
(***************************************************************************)
NearMinutes == 15

isNear(c, now, f) == isWithinTimeRange(now, c[f], NearMinutes)

\* route.ts line 125, part_000 line 162: near any of the six boundaries
isNearAnyBoundary(c, now) ==
    \E f \in {"preHeatingTime", "bedTime", "midStageTime", "finalStageTime",
              "warmingTime", "wakeupTime"} : isNear(c, now, f)

WarmingLevelRoute == 10
WarmingLevelPart0 == 2

NoTarget == [resolved |-> FALSE, level |-> 0]
Target(n) == [resolved |-> TRUE, level |-> n]

TargetRoute(c, now, stage, p) ==
    IF isNearAnyBoundary(c, now)
    THEN IF isNear(c, now, "warmingTime") \/ stage = "warming"
              THEN Target(WarmingLevelRoute)
         ELSE IF stage = "final" THEN Target(p.finalSleepLevel)
         ELSE IF stage = "initial" \/ stage = "pre-heating"
              THEN Target(p.initialSleepLevel)
         ELSE Target(p.midStageSleepLevel)
    ELSE NoTarget

\* mutant: near a boundary, the level of the stage that begins there
TargetPart0LaterWins(c, now, p) ==
    IF isNearAnyBoundary(c, now)
    THEN IF isNear(c, now, "warmingTime") THEN Target(WarmingLevelPart0)
         ELSE IF isNear(c, now, "finalStageTime") THEN Target(p.finalSleepLevel)
         ELSE IF isNear(c, now, "midStageTime") THEN Target(p.midStageSleepLevel)
         ELSE IF isNear(c, now, "bedTime") \/ isNear(c, now, "preHeatingTime")
              THEN Target(p.initialSleepLevel)
         ELSE Target(p.finalSleepLevel)
    ELSE NoTarget

TargetPart0(c, now, p) ==
    IF isNearAnyBoundary(c, now)
    THEN IF isNear(c, now, "warmingTime") THEN Target(WarmingLevelPart0)
         ELSE IF isNear(c, now, "preHeatingTime")
                 \/ (isNear(c, now, "bedTime") /\ now < c.bedTime)
              THEN Target(p.initialSleepLevel)
         ELSE IF isNear(c, now, "bedTime")
                 \/ (isNear(c, now, "midStageTime") /\ now < c.midStageTime)
              THEN Target(p.initialSleepLevel)
         ELSE IF isNear(c, now, "midStageTime")
                 \/ (isNear(c, now, "finalStageTime") /\ now < c.finalStageTime)
              THEN Target(p.midStageSleepLevel)
         ELSE Target(p.finalSleepLevel)
    ELSE NoTarget

\* part_001 and part_002: the target follows the window
TargetWindows(c, now, p) ==
    IF InPreHeating(c, now) \/ InInitial(c, now) THEN Target(p.initialSleepLevel)
    ELSE IF InMid(c, now) THEN Target(p.midStageSleepLevel)
    ELSE IF InFinalToWakeup(c, now) THEN Target(p.finalSleepLevel)
    ELSE NoTarget

ResolveTarget(v, c, now, stage, p) ==
    IF v = Route THEN TargetRoute(c, now, stage, p)
    ELSE IF v = Part0 THEN TargetPart0(c, now, p)
    ELSE TargetWindows(c, now, p)

NoCycle == [preHeatingTime |-> 0, bedTime |-> 0, midStageTime |-> 0,
            finalStageTime |-> 0, wakeupTime |-> 0]

(***************************************************************************)
(* Input sets.                                                             *)
(***************************************************************************)
\* minute values a stored time string takes per hour (2: on the half hour)
SlotsPerHour == 2
\* reference instants per hour (4: every 15 minutes)
NowsPerHour == 4

SlotMinutes == {(k * 60) \div SlotsPerHour : k \in 0..(SlotsPerHour - 1)}
NowMinutes == {(k * 60) \div NowsPerHour : k \in 0..(NowsPerHour - 1)}

\* the reference instant lies on day 1, so that day 0 and day 2 exist around it
DayOne(h, m) == DayMinutes + h * 60 + m

Levels == [initialSleepLevel |-> -20, midStageSleepLevel |-> 30,
           finalSleepLevel |-> 50]

Profile(bed, wake) ==
    [bedTime |-> bed, wakeupTime |-> wake,
     initialSleepLevel |-> Levels.initialSleepLevel,
     midStageSleepLevel |-> Levels.midStageSleepLevel,
     finalSleepLevel |-> Levels.finalSleepLevel]

StageTimeStrings == {TimeString(h, m) : h \in 0..23, m \in SlotMinutes}
StageWakeStrings ==
    {TimeString(h, 0) : h \in 0..23}
        \cup {TimeString(h, m) : h \in {0, 6, 23}, m \in SlotMinutes}
StageNows == {DayOne(h, m) : h \in 0..23, m \in NowMinutes}

(***************************************************************************)
(* Device state and what follows the classification.                       *)
(***************************************************************************)
NoStatus == [source |-> "none", isHeating |-> FALSE, heatingLevel |-> 0]
\* the fixed state that stands in for the status read in test mode
InertStatus == [source |-> "inert", isHeating |-> FALSE, heatingLevel |-> 0]
StatusOf(d) ==
    [source |-> "device", isHeating |-> d.isHeating, heatingLevel |-> d.heatingLevel]

\* versions that read the status before they decide, whatever the target
ReadsStatusFirst(v) == v \in {Part0, Part1}

\* the condition of the power-off branch, once no target is resolved
PowerOffDue(v, c, now, st) ==
    IF v = Route
    THEN Before(c.wakeupTime, now) /\ ~isNear(c, now, "wakeupTime")
    ELSE IF v = Part0
         THEN st.isHeating /\ Before(c.wakeupTime, now)
                /\ ~isNear(c, now, "wakeupTime")
    ELSE IF v = Part1 THEN st.isHeating /\ Before(c.wakeupTime, now)
    ELSE Before(c.wakeupTime, now)

\* mutant: the power-off is not in an else branch, it follows the power-on
AfterTurnOnThenOff(v, st, tgt) == "off"

\* after turnOnSide returned: set the level if it differs (part_002: always)
AfterTurnOn(v, st, tgt) ==
    IF v = Part2 \/ st.heatingLevel # tgt.level THEN "set" ELSE "loop"

\* the device write the evaluation turns to once the status is known
AfterStatus(v, c, now, st, tgt) ==
    IF tgt.resolved
    THEN IF ~st.isHeating THEN "on" ELSE AfterTurnOn(v, st, tgt)
    ELSE IF PowerOffDue(v, c, now, st) THEN "off" ELSE "loop"

\* mutant: the test-mode flag is not consulted before the device calls
AfterClassifyLive(v, test, c, now, tgt) ==
    IF ReadsStatusFirst(v) THEN "status"
    ELSE IF v = Route
         THEN IF tgt.resolved THEN "status"
              ELSE IF PowerOffDue(v, c, now, NoStatus) THEN "off" ELSE "loop"
    ELSE IF tgt.resolved THEN "on"
         ELSE IF PowerOffDue(v, c, now, NoStatus) THEN "off" ELSE "loop"

\* where the evaluation goes after boundaries, stage and target are computed
AfterClassify(v, test, c, now, tgt) ==
    IF test THEN "loop"
    ELSE IF ReadsStatusFirst(v) THEN "status"
    ELSE IF v = Route
         THEN IF tgt.resolved THEN "status"
              ELSE IF PowerOffDue(v, c, now, NoStatus) THEN "off" ELSE "loop"
    ELSE IF tgt.resolved THEN "on"
         ELSE IF PowerOffDue(v, c, now, NoStatus) THEN "off" ELSE "loop"

(***************************************************************************)
(* The try block around one row.                                           *)
(***************************************************************************)
\* mutant: the error leaves the loop, as if only the outer try block caught it
AfterRowCatchLeavesLoop == "done"

\* the row's catch block logs the error; the for loop goes on
AfterRowCatch == "loop"

(***************************************************************************)
(* retryApiCall.                                                           *)
(***************************************************************************)
Retries == 3

\* device calls made through retryApiCall: all of them, except in route.ts,
\* which wraps the status read only
Wrapped(v, op) == v # Route \/ op = "status"

\* mutant: no backoff, the same delay before every attempt
RetryDelayFixed(i) == 1000

\* setTimeout(resolve, 1000 * Math.pow(2, i))
RetryDelay(i) == 1000 * 2^i

\* if (i === retries - 1) throw error
RetryRethrows(i) == i = Retries - 1

Entry(op, level, attempts, w, result) ==
    [op |-> op, level |-> level, attempts |-> attempts, waits |-> w,
     result |-> result]

\* the call returned: retryApiCall (or the bare await) returns its result
CallReturns(op, level, next) ==
    /\ log' = Append(log, Entry(op, level, retryI + 1, waits, "returned"))
    /\ retryI' = 0
    /\ waits' = <<>>
    /\ pc' = next
    /\ UNCHANGED <<threw, caught, failures>>

\* the call failed: retryApiCall waits and tries again, or rethrows; a bare
\* await throws at once; the row's catch block takes the error
CallFails(op, level) ==
    /\ failures' = failures + 1
    /\ IF Wrapped(variant, op) /\ ~RetryRethrows(retryI)
       THEN /\ retryI' = retryI + 1
            /\ waits' = Append(waits, RetryDelay(retryI))
            /\ UNCHANGED <<pc, log, threw, caught>>
       ELSE /\ log' = Append(log, Entry(op, level, retryI + 1, waits, "thrown"))
            /\ retryI' = 0
            /\ waits' = <<>>
            /\ threw' = "DeviceApiError"
            /\ caught' = caught \cup {idx}
            /\ pc' = AfterRowCatch

(***************************************************************************)
(* Input sets of a run.                                                    *)
(***************************************************************************)
\* rows the profile query returns at most
MaxProfiles == 2
\* collaborator calls that fail in one run at most
MaxFailures == 3

RunHours == {5, 6, 7, 12, 20, 21, 23}
RunNows == {DayOne(h, m) : h \in RunHours, m \in NowMinutes}

RunProfiles == {Profile(TimeString(22, 0), TimeString(6, 0)),
                Profile(NotANumber, TimeString(6, 0))}

Devices == {[isHeating |-> h, heatingLevel |-> l] :
                h \in BOOLEAN, l \in {0, Levels.midStageSleepLevel}}

NoDevice == [isHeating |-> FALSE, heatingLevel |-> 0]
NoProfile == Profile(TimeString(0, 0), TimeString(0, 0))

\* versions that refresh an expired credential (live runs only)
Refreshes(v) == v \in {Part0, Part2}

(***************************************************************************)
(* GET and adjustTemperature.                                              *)
(***************************************************************************)
\* request.headers.get("authorization"): null, or the header's text, held as
\* its first seven characters and the rest
NoHeader == [present |-> FALSE, text |-> <<"", "">>]
Header(scheme, credentials) == [present |-> TRUE, text |-> <<scheme, credentials>>]

\* process.env.CRON_SECRET: undefined, or the configured string
Undefined == [defined |-> FALSE, string |-> ""]
Configured(str) == [defined |-> TRUE, string |-> str]

\* ${...} in a template literal: the string itself, "undefined" for undefined
InterpolatedString(value) == IF value.defined THEN value.string ELSE "undefined"

\* `Bearer ${process.env.CRON_SECRET}`
BearerTemplate(secret) == <<"Bearer ", InterpolatedString(secret)>>

\* the negation of authHeader !== `Bearer ${process.env.CRON_SECRET}`
Authorizes(header, secret) ==
    header.present /\ header.text = BearerTemplate(secret)

\* the secret of a deployment, and the headers a request may carry
TheSecret == Configured("s3cret")
Secrets == {TheSecret, Undefined}
Headers == {NoHeader, Header("Bearer ", "s3cret"), Header("Bearer ", "undefined"),
            Header("Bearer ", "guess"), Header("Basic ", "s3cret")}

\* GET, up to the call of adjustTemperature
Request ==
    /\ pc = "request"
    /\ authorized' = Authorizes(authHeader, cronSecret)
    /\ IF authorized'
       THEN pc' = "fetch" /\ UNCHANGED response
       ELSE pc' = "done" /\ response' = "401 Unauthorized"
    /\ UNCHANGED <<inputVars, profile, stageVars, fetch, profileCount,
                   idx, token, persisted, device, heatingStatus, callVars, threw,
                   caught, bodyRuns, failures, propagated>>

\* the outer catch block rethrows (part_000), or there is none (part_002)
FetchFailurePropagates(v) == v \in {Part0, Part2}

\* what GET answers when adjustTemperature threw
AnswerToThrow(v) ==
    IF v = Part2 THEN "unhandled rejection" ELSE "500 Internal server error"

\* db.select()...innerJoin(...)
FetchProfiles ==
    /\ pc = "fetch"
    /\ \/ /\ \E n \in 0..MaxProfiles :
                /\ profileCount' = n
                /\ bodyRuns' = [k \in 1..n |-> 0]
          /\ fetch' = "returned"
          /\ pc' = "loop"
          /\ UNCHANGED <<failures, propagated, response>>
       \/ /\ failures < MaxFailures
          /\ failures' = failures + 1
          /\ fetch' = "failed"
          /\ pc' = "done"
          /\ propagated' = FetchFailurePropagates(variant)
          /\ response' = IF FetchFailurePropagates(variant)
                         THEN AnswerToThrow(variant)
                         ELSE "success"
          /\ UNCHANGED <<profileCount, bodyRuns>>
    /\ UNCHANGED <<inputVars, profile, stageVars, authorized, idx, token,
                   persisted, device, heatingStatus, callVars, threw, caught>>

\* for (const profile of profiles): the next row, and the start of its try block
NextProfile ==
    /\ pc = "loop"
    /\ idx < profileCount
    /\ idx' = idx + 1
    /\ bodyRuns' = [bodyRuns EXCEPT ![idx + 1] = @ + 1]
    /\ profile' \in RunProfiles
    /\ device' \in Devices
    /\ token' \in {"stored", "expired"}
    /\ persisted' = FALSE
    /\ heatingStatus' = NoStatus
    /\ adjustedCycle' = NoCycle
    /\ currentSleepStage' = ""
    /\ targetLevel' = NoTarget
    /\ retryI' = 0
    /\ waits' = <<>>
    /\ log' = <<>>
    /\ threw' = "nothing"
    /\ pc' = IF Refreshes(variant) /\ ~testMode /\ token' = "expired"
             THEN "refresh" ELSE "cycle"
    /\ UNCHANGED <<inputVars, authorized, fetch, profileCount, caught, failures,
                   propagated, response>>

\* the loop is over: adjustTemperature returns and GET answers
Finish ==
    /\ pc = "loop"
    /\ idx = profileCount
    /\ pc' = "done"
    /\ response' = "success"
    /\ UNCHANGED <<inputVars, profile, stageVars, authorized, fetch, profileCount,
                   idx, token, persisted, device, heatingStatus, callVars, threw,
                   caught, bodyRuns, failures, propagated>>

\* obtainFreshAccessToken
RefreshToken ==
    /\ pc = "refresh"
    /\ \/ /\ token' = "refreshed"
          /\ pc' = "persist"
          /\ UNCHANGED <<threw, caught, failures>>
       \/ /\ failures < MaxFailures
          /\ failures' = failures + 1
          /\ threw' = "AuthError"
          /\ caught' = caught \cup {idx}
          /\ pc' = AfterRowCatch
          /\ UNCHANGED token
    /\ UNCHANGED <<inputVars, profile, stageVars, runVars, idx, persisted, device,
                   heatingStatus, callVars>>

\* db.update(users).set(...)
PersistToken ==
    /\ pc = "persist"
    /\ \/ /\ persisted' = TRUE
          /\ pc' = "cycle"
          /\ UNCHANGED <<threw, caught, failures>>
       \/ /\ failures < MaxFailures
          /\ failures' = failures + 1
          /\ threw' = "PersistenceError"
          /\ caught' = caught \cup {idx}
          /\ pc' = AfterRowCatch
          /\ UNCHANGED persisted
    /\ UNCHANGED <<inputVars, profile, stageVars, runVars, idx, token, device,
                   heatingStatus, callVars>>

(***************************************************************************)
(* Lines 94-139 of route.ts (121-181 of part_000, 95-134 of part_001,      *)
(* 80-91 of part_002): boundaries, stage and target of the current row.    *)
(***************************************************************************)
Classify ==
    /\ pc = "cycle"
    /\ IF InvalidTimeString(variant, profile.bedTime)
          \/ InvalidTimeString(variant, profile.wakeupTime)
       THEN /\ pc' = AfterRowCatch
            /\ threw' = "Invalid time string"
            /\ caught' = caught \cup {idx}
            /\ UNCHANGED <<stageVars, heatingStatus>>
       ELSE \E c \in {AdjustCycle(variant, userNow,
                        createSleepCycle(variant, userNow, profile.bedTime,
                                         profile.wakeupTime))} :
            \E stage \in {DetectStage(variant, c, userNow)} :
            \E tgt \in {ResolveTarget(variant, c, userNow, stage, profile)} :
                /\ adjustedCycle' = c
                /\ currentSleepStage' = stage
                /\ targetLevel' = tgt
                /\ heatingStatus' = IF testMode /\ ReadsStatusFirst(variant)
                                    THEN InertStatus ELSE heatingStatus
                /\ pc' = AfterClassify(variant, testMode, c, userNow, tgt)
                /\ UNCHANGED <<threw, caught>>
    /\ UNCHANGED <<inputVars, profile, runVars, idx, token, persisted, device,
                   callVars, failures>>

\* getCurrentHeatingStatus(token), through retryApiCall
ReadStatus ==
    /\ pc = "status"
    /\ \/ /\ heatingStatus' = StatusOf(device)
          /\ CallReturns("status", 0,
                AfterStatus(variant, adjustedCycle, userNow, StatusOf(device),
                            targetLevel))
       \/ /\ failures < MaxFailures
          /\ CallFails("status", 0)
          /\ UNCHANGED heatingStatus
    /\ UNCHANGED <<inputVars, profile, stageVars, runVars, idx, token, persisted,
                   device>>

\* turnOnSide(token, userId)
TurnOnSide ==
    /\ pc = "on"
    /\ \/ CallReturns("on", 0, AfterTurnOn(variant, heatingStatus, targetLevel))
       \/ /\ failures < MaxFailures
          /\ CallFails("on", 0)
    /\ UNCHANGED <<inputVars, profile, stageVars, runVars, idx, token, persisted,
                   device, heatingStatus>>

\* setHeatingLevel(token, userId, targetLevel)
SetHeatingLevel ==
    /\ pc = "set"
    /\ \/ CallReturns("set", targetLevel.level, "loop")
       \/ /\ failures < MaxFailures
          /\ CallFails("set", targetLevel.level)
    /\ UNCHANGED <<inputVars, profile, stageVars, runVars, idx, token, persisted,
                   device, heatingStatus>>

\* turnOffSide(token, userId)
TurnOffSide ==
    /\ pc = "off"
    /\ \/ CallReturns("off", 0, "loop")
       \/ /\ failures < MaxFailures
          /\ CallFails("off", 0)
    /\ UNCHANGED <<inputVars, profile, stageVars, runVars, idx, token, persisted,
                   device, heatingStatus>>

(***************************************************************************)
(* Specifications.                                                         *)
(***************************************************************************)
Idle ==
    /\ adjustedCycle = NoCycle
    /\ currentSleepStage = ""
    /\ targetLevel = NoTarget
    /\ token = "stored"
    /\ persisted = FALSE
    /\ heatingStatus = NoStatus
    /\ retryI = 0
    /\ waits = <<>>
    /\ log = <<>>
    /\ threw = "nothing"
    /\ caught = {}
    /\ failures = 0
    /\ propagated = FALSE
    /\ response = "none"

\* a request arrives, at one of the given instants
InitAt(nows) ==
    /\ variant \in Variants
    /\ testMode \in BOOLEAN
    /\ userNow \in nows
    /\ authHeader \in Headers
    /\ cronSecret \in Secrets
    /\ authorized = FALSE
    /\ fetch = "not yet"
    /\ pc = "request"
    /\ profile = NoProfile
    /\ device = NoDevice
    /\ profileCount = 0
    /\ idx = 0
    /\ bodyRuns = <<>>
    /\ Idle

Init == InitAt(RunNows)

Next ==
    \/ Request
    \/ FetchProfiles
    \/ NextProfile
    \/ Finish
    \/ RefreshToken
    \/ PersistToken
    \/ Classify
    \/ ReadStatus
    \/ TurnOnSide
    \/ SetHeatingLevel
    \/ TurnOffSide

Spec == Init /\ [][Next]_vars

\* the same run, with the scheduling of the event loop: a step that can be
\* taken is taken (every collaborator call returns or fails)
\* at wakeupTime (a target level in route.ts and part_000, no call in part_001
\* and part_002) and half an hour later (a power-off)
FairNows == {DayOne(6, 0), DayOne(6, 30)}

InitFair == InitAt(FairNows) /\ cronSecret = TheSecret

FairSpec == InitFair /\ [][Next]_vars /\ WF_vars(Next)

\* the classification alone, in test mode, over every profile and instant of a day
InitStage ==
    /\ variant \in Variants
    /\ testMode = TRUE
    /\ userNow \in StageNows
    /\ cronSecret = TheSecret
    /\ authHeader = Header("Bearer ", InterpolatedString(cronSecret))
    /\ authorized = TRUE
    /\ fetch = "returned"
    /\ pc = "cycle"
    /\ profile \in {Profile(b, w) : b \in StageTimeStrings, w \in StageWakeStrings}
    /\ device = NoDevice
    /\ profileCount = 1
    /\ idx = 1
    /\ bodyRuns = <<1>>
    /\ Idle

NextStage == Classify

SpecStage == InitStage /\ [][NextStage]_vars

(***************************************************************************)
(* Time-of-day reading of a profile, for stating the claims.               *)
(***************************************************************************)
TimeOfDay(ts) == ts.hours * 60 + ts.minutes

\* wakeTime minus bedTime modulo 24 h; equal strings give a full day
SleepSpan(p) ==
    LET d == (TimeOfDay(p.wakeupTime) - TimeOfDay(p.bedTime)) % DayMinutes
    IN  IF d = 0 THEN DayMinutes ELSE d

\* minutes from bedTime's time-of-day to the instant's, modulo 24 h
SinceBedTime(p, now) == (now - TimeOfDay(p.bedTime)) % DayMinutes

Classified == currentSleepStage # ""

\* the stage whose time-of-day window holds an instant `since` minutes after bedTime
InBedStage(v, since, span) ==
    IF since < 60 THEN "initial"
    ELSE IF HasWarming(v) /\ since >= span - 30 THEN "warming"
    ELSE IF since >= span - 120 THEN "final"
    ELSE "mid"

\* C1: for a sleep span of more than 3 h and at most 12 h and an instant whose
\* time-of-day lies in [bedTime, wakeTime), on either side of midnight, route.ts,
\* part_000 and part_001 detect the stage whose time-of-day window holds the
\* instant, and never "outside sleep cycle".
C1_InBedStageDetected ==
    (/\ Classified
     /\ Normalizes(variant)
     /\ SleepSpan(profile) > 180
     /\ SleepSpan(profile) <= 720
     /\ SinceBedTime(profile, userNow) < SleepSpan(profile))
    => /\ currentSleepStage
            = InBedStage(variant, SinceBedTime(profile, userNow), SleepSpan(profile))
       /\ currentSleepStage # Outside

\* an instant after midnight inside a cycle that began before midnight
C1_Witness ==
    /\ Classified
    /\ variant = Route
    /\ profile.bedTime = TimeString(22, 0)
    /\ profile.wakeupTime = TimeString(6, 0)
    /\ userNow = DayOne(2, 0)
    /\ adjustedCycle.bedTime = DayOne(22, 0) - DayMinutes
    /\ currentSleepStage = "mid"

\* C2: for every instant whose time-of-day lies in [bedTime - lead, bedTime)
\* modulo 24 h the detected stage is pre-heating, also when bedTime is less than
\* the lead time after midnight.  Stated for the sleep spans of C1 only (more
\* than 3 h, at most 12 h), which is where the claim is least demanding.
C2_PreHeatingDetected ==
    (/\ Classified
     /\ Normalizes(variant)
     /\ SleepSpan(profile) > 180
     /\ SleepSpan(profile) <= 720
     /\ DayMinutes - SinceBedTime(profile, userNow) <= PreHeatHours(variant) * 60)
    => currentSleepStage = "pre-heating"

(***************************************************************************)
(* Reading a row's evaluation, for stating the claims.                     *)
(***************************************************************************)
\* a device call of this kind was made in the current row's evaluation
Issued(op) ==
    \/ \E k \in 1..Len(log) : log[k].op = op
    \/ pc = op /\ retryI > 0

\* the current row's try block is over, by its end or by its catch block
RowDone == idx > 0 /\ pc \in {"loop", "done"} /\ fetch = "returned"

\* the instant is more than 15 minutes away from every boundary of the cycle
FarFromBoundaries(c, now) ==
    \A f \in DOMAIN c : now - c[f] > 15 \/ c[f] - now > 15

\* C3: in a live evaluation that resolves no target, at an instant later than
\* the normalized wakeTime and not within 15 minutes of it, a power-off is
\* issued if and only if the device is heating, and no device write at all is
\* issued when it is already off (route.ts and part_000).
C3_PowerOffIffHeating ==
    (/\ RowDone
     /\ ~testMode
     /\ variant \in {Route, Part0}
     /\ threw = "nothing"
     /\ Classified
     /\ ~targetLevel.resolved
     /\ userNow - adjustedCycle.wakeupTime > 15)
    => /\ Issued("off") <=> device.isHeating
       /\ ~device.isHeating => ~(Issued("on") \/ Issued("set") \/ Issued("off"))

\* C4: in a live evaluation that resolves a target level (route.ts, part_000,
\* part_001), power-on is issued if and only if the status read reports
\* isHeating = false, and set-level if and only if the reported heatingLevel
\* differs from the target.
C4_WritesIffStateDiffers ==
    (/\ RowDone
     /\ ~testMode
     /\ Normalizes(variant)
     /\ targetLevel.resolved
     /\ heatingStatus.source = "device")
    => /\ Issued("on") <=> ~heatingStatus.isHeating
       /\ Issued("set") <=> heatingStatus.heatingLevel # targetLevel.level

C6_ConvergesInsideStage ==
    (/\ RowDone
     /\ ~testMode
     /\ variant = Route
     /\ threw = "nothing"
     /\ Classified
     /\ currentSleepStage # Outside)
    => /\ targetLevel.resolved
       /\ ~device.isHeating => Issued("on")
       /\ device.heatingLevel # targetLevel.level => Issued("set")

Backoff == <<1000, 2000>>

\* C7: retryApiCall invokes the call at most 3 times, waits 1 s before the
\* second attempt and 2 s before the third, returns the first success without
\* surfacing the failures before it, and rethrows the third failure with no
\* further attempt and no further wait.
C7_RetryProtocol ==
    /\ retryI <= 2
    /\ (pc \in {"status", "on", "set", "off"} /\ Wrapped(variant, pc))
            => waits = SubSeq(Backoff, 1, retryI)
    /\ \A k \in 1..Len(log) :
            Wrapped(variant, log[k].op)
            => /\ log[k].attempts \in 1..3
               /\ log[k].waits = SubSeq(Backoff, 1, log[k].attempts - 1)
               /\ log[k].result = "thrown" => log[k].attempts = 3 /\ k = Len(log)
               /\ (log[k].result = "returned" /\ k = Len(log))
                    => threw = "nothing"

\* two failures, then a success: the call returned and nothing was thrown
C7_Witness ==
    \E k \in 1..Len(log) :
        /\ Wrapped(variant, log[k].op)
        /\ log[k].attempts = 3
        /\ log[k].result = "returned"
        /\ log[k].waits = Backoff
        /\ threw = "nothing"

\* C8: every device call is made through the retry wrapper, so a device call
\* fails the row's evaluation only after its third attempt failed.
C8_EveryCallRetried ==
    \A k \in 1..Len(log) : log[k].result = "thrown" => log[k].attempts = 3

\* C9: an error raised while processing one row is caught at that row; every
\* row of the list is taken exactly once, and, every collaborator call
\* returning or failing, the run ends and reports success.
C9_ErrorsContained ==
    /\ [](fetch = "returned"
            => /\ \A k \in 1..profileCount :
                        bodyRuns[k] = (IF k <= idx THEN 1 ELSE 0)
               /\ caught \subseteq 1..idx
               /\ ~propagated
               /\ pc = "done" => idx = profileCount /\ response = "success")
    /\ [](fetch = "returned" => <>(pc = "done" /\ response = "success"))

\* a run of two rows: the first row's evaluation threw, the second one's set
\* the level, and the run reported success
C9_Witness ==
    /\ pc = "done"
    /\ profileCount = 2
    /\ caught = {1}
    /\ bodyRuns = <<1, 1>>
    /\ Issued("set")
    /\ response = "success"

\* C10: a failure of the profile query is propagated out of adjustTemperature
\* and GET answers with a failure report; success is reported only when the
\* run evaluated the profile list.
C10_FetchFailureReported ==
    /\ fetch = "failed" => propagated /\ response # "success"
    /\ response = "success" => fetch = "returned"

(***************************************************************************)
(* Credentials, test mode.                                                 *)
(***************************************************************************)
DeviceOps == {"status", "on", "set", "off"}

\* a device call of the current row was made or is being made
Calling == idx > 0 /\ (log # <<>> \/ pc \in DeviceOps)

\* C11: in a live run, a row whose stored token has expired makes every device
\* call with the refreshed and persisted credential, and makes no device call
\* when the refresh or the persist failed.
C11_RefreshPrecedesCalls ==
    /\ (~testMode /\ Calling)
            => /\ token # "expired"
               /\ token = "refreshed" => persisted
    /\ threw \in {"AuthError", "PersistenceError"} => ~Calling

\* C12: a run in test mode makes no device write and no device status read
\* (part_000 and part_001 put the fixed state isHeating = false, heatingLevel = 0
\* in its place), refreshes no credential and writes nothing to the database.
C12_DryRunNoSideEffects ==
    testMode
    => /\ ~Calling
       /\ retryI = 0
       /\ heatingStatus.source # "device"
       /\ token # "refreshed"
       /\ ~persisted
       /\ (Classified /\ ReadsStatusFirst(variant)) => heatingStatus = InertStatus

\* a test-mode evaluation of a row with an expired token that resolved a target
C12_Witness ==
    /\ testMode
    /\ RowDone
    /\ variant = Part0
    /\ token = "expired"
    /\ threw = "nothing"
    /\ targetLevel.resolved
    /\ heatingStatus = InertStatus

(***************************************************************************)
(* The windows of the classifier.                                          *)
(***************************************************************************)
\* the five windows route.ts and part_000 test, first to last
Windows(c) ==
    <<[from |-> c.preHeatingTime, to |-> c.bedTime],
      [from |-> c.bedTime, to |-> c.midStageTime],
      [from |-> c.midStageTime, to |-> c.finalStageTime],
      [from |-> c.finalStageTime, to |-> c.warmingTime],
      [from |-> c.warmingTime, to |-> c.wakeupTime]>>

Holds(w, t) == w.from <= t /\ t < w.to

\* C13: on the boundaries route.ts and part_000 classify against, no instant
\* lies in two of the five windows, every instant of [preHeatStart, wakeTime)
\* lies in one, and so testing the windows last to first (route.ts) or first to
\* last (part_000) gives the same tag.
C13_WindowsPartition ==
    (Classified /\ HasWarming(variant))
    => LET c == adjustedCycle
           w == Windows(c)
       IN  /\ \A i, j \in 1..5 :
                    (i < j) => ~(Holds(w[i], userNow) /\ Holds(w[j], userNow))
           /\ (c.preHeatingTime <= userNow /\ userNow < c.wakeupTime)
                    => \E i \in 1..5 : Holds(w[i], userNow)
           /\ DetectStageRoute(c, userNow) = DetectStagePart0(c, userNow)

\* C14: the boundaries handed to the classifier of route.ts and part_000 are
\* strictly ordered: preHeatStart < bedTime < midStageStart < finalStageStart
\* < warmingStart < wakeTime.
C14_BoundariesOrdered ==
    (Classified /\ HasWarming(variant))
    => LET c == adjustedCycle
       IN  /\ c.preHeatingTime < c.bedTime
           /\ c.bedTime < c.midStageTime
           /\ c.midStageTime < c.finalStageTime
           /\ c.finalStageTime < c.warmingTime
           /\ c.warmingTime < c.wakeupTime

(***************************************************************************)
(* The level a stage tag stands for.                                       *)
(***************************************************************************)
SpikeLevel(v) == IF v = Route THEN WarmingLevelRoute ELSE WarmingLevelPart0

\* the mapping from stage tag to level; no level outside the cycle
StageLevel(v, stage, p) ==
    IF stage \in {"pre-heating", "initial"} THEN Target(p.initialSleepLevel)
    ELSE IF stage = "mid" THEN Target(p.midStageSleepLevel)
    ELSE IF stage = "final" THEN Target(p.finalSleepLevel)
    ELSE IF stage = "warming" THEN Target(SpikeLevel(v))
    ELSE NoTarget

\* C15: whenever a live evaluation of route.ts, part_000 or part_001 issues
\* power-on or set-level, the level it resolved is the one mapped from the
\* stage whose window holds the instant.
C15_LevelFollowsStage ==
    (/\ ~testMode
     /\ Normalizes(variant)
     /\ Classified
     /\ Issued("on") \/ Issued("set"))
    => targetLevel = StageLevel(variant, currentSleepStage, profile)

(***************************************************************************)
(* The quarter of an hour before a boundary.                               *)
(***************************************************************************)
StageBoundaries == {"bedTime", "midStageTime", "finalStageTime", "warmingTime"}

\* the instant is at most 15 minutes before the boundary, and before it
ShortlyBefore(c, now, f) == c[f] - now <= 15 /\ now < c[f]

\* the instant is in the window of the stage that ends at the boundary
InEarlierStage(c, now, f) ==
    IF f = "bedTime" THEN InPreHeating(c, now)
    ELSE IF f = "midStageTime" THEN InInitial(c, now)
    ELSE IF f = "finalStageTime" THEN InMid(c, now)
    ELSE InFinalToWarming(c, now)

\* the level of the stage that begins at the boundary
LaterLevel(v, f, p) ==
    IF f = "bedTime" THEN Target(p.initialSleepLevel)
    ELSE IF f = "midStageTime" THEN Target(p.midStageSleepLevel)
    ELSE IF f = "finalStageTime" THEN Target(p.finalSleepLevel)
    ELSE Target(SpikeLevel(v))

\* the level of the stage that ends at the boundary
EarlierLevel(f, p) ==
    IF f = "finalStageTime" THEN Target(p.midStageSleepLevel)
    ELSE Target(p.initialSleepLevel)

\* no boundary of the cycle other than f is within 15 minutes of the instant
NearNoOther(c, now, f) ==
    \A g \in DOMAIN c \ {f} : now - c[g] > 15 \/ c[g] - now > 15

\* C16 as claimed: at most 15 minutes before a stage boundary and still in the
\* earlier stage's window, the target is the level of the stage that begins
\* at the boundary (part_000: every boundary; route.ts: warmingStart).  Stated
\* for sleep spans of more than 3 h and at most 12 h only, where the windows
\* are well formed.
C16_LaterStageLevel ==
    (/\ Classified
     /\ HasWarming(variant)
     /\ SleepSpan(profile) > 180
     /\ SleepSpan(profile) <= 720)
    => \A f \in (IF variant = Part0 THEN StageBoundaries ELSE {"warmingTime"}) :
            (ShortlyBefore(adjustedCycle, userNow, f)
                /\ InEarlierStage(adjustedCycle, userNow, f))
            => targetLevel = LaterLevel(variant, f, profile)

\* C16 as amended: at most 15 minutes before warmingStart and still in the
\* final window, the target is the spike level (10 in route.ts, 2 in
\* part_000); in part_000, at most 15 minutes before bedTime, midStageStart or
\* finalStageStart, still in the earlier stage's window and within 15 minutes
\* of no other boundary, the target is the level of the earlier stage.
C16_SpikeElseEarlierLevel ==
    (Classified /\ HasWarming(variant))
    => /\ (ShortlyBefore(adjustedCycle, userNow, "warmingTime")
                /\ InEarlierStage(adjustedCycle, userNow, "warmingTime"))
            => targetLevel = Target(SpikeLevel(variant))
       /\ variant = Part0
            => \A f \in StageBoundaries \ {"warmingTime"} :
                    (/\ ShortlyBefore(adjustedCycle, userNow, f)
                     /\ InEarlierStage(adjustedCycle, userNow, f)
                     /\ NearNoOther(adjustedCycle, userNow, f))
                    => targetLevel = EarlierLevel(f, profile)

\* part_000 a quarter of an hour before midStageStart, in the initial stage:
\* the initial level, not the mid level
C16_Witness ==
    /\ Classified
    /\ variant = Part0
    /\ profile.bedTime = TimeString(22, 0)
    /\ profile.wakeupTime = TimeString(6, 0)
    /\ userNow = DayOne(22, 45)
    /\ ShortlyBefore(adjustedCycle, userNow, "midStageTime")
    /\ currentSleepStage = "initial"
    /\ targetLevel = Target(profile.initialSleepLevel)

(***************************************************************************)
(* One live row whose time strings are anything the profile table can      *)
(* hold: hours and minutes in and out of range, a part that is not a       *)
(* number, no minutes.                                                     *)
(***************************************************************************)
ParseStrings ==
    {TimeString(h, m) : h \in {0, 22, 23, 24, 25}, m \in {0, 59, 60}}
        \cup {NotANumber, HoursOnly(22)}

ParseProfiles ==
    {Profile(b, TimeString(6, 0)) : b \in ParseStrings}
        \cup {Profile(TimeString(22, 0), w) : w \in ParseStrings}

ParseNows == {DayOne(6, 0), DayOne(6, 30), DayOne(23, 0)}

InitParse ==
    /\ variant \in Variants
    /\ testMode = FALSE
    /\ userNow \in ParseNows
    /\ cronSecret = TheSecret
    /\ authHeader = Header("Bearer ", InterpolatedString(cronSecret))
    /\ authorized = TRUE
    /\ fetch = "returned"
    /\ pc = "cycle"
    /\ profile \in ParseProfiles
    /\ device \in Devices
    /\ profileCount = 1
    /\ idx = 1
    /\ bodyRuns = <<1>>
    /\ Idle

NextParse ==
    \/ Classify
    \/ ReadStatus
    \/ TurnOnSide
    \/ SetHeatingLevel
    \/ TurnOffSide
    \/ Finish

SpecParse == InitParse /\ [][NextParse]_vars

\* the strings the parse is to refuse
OutOfRangeOrMalformed(ts) ==
    \/ ts.kind # "numbers"
    \/ ts.hours < 0 \/ ts.hours > 23
    \/ ts.minutes < 0 \/ ts.minutes > 59

\* C17: when bedTime or wakeTime has an hour outside 0..23, a minute outside
\* 0..59 or is malformed, the parse fails with "Invalid time string" and no
\* device call is made for that row.
C17_InvalidStringFails ==
    (/\ pc # "cycle"
     /\ OutOfRangeOrMalformed(profile.bedTime)
            \/ OutOfRangeOrMalformed(profile.wakeupTime))
    => threw = "Invalid time string" /\ ~Calling

\* the un-normalized preHeatStart of the current row: the cycle start that
\* adjustTimeToCurrentCycle is given
CycleStart ==
    createSleepCycle(variant, userNow, profile.bedTime,
                     profile.wakeupTime).preHeatingTime

\* C18: for the cycle start and the instant of the evaluation,
\* adjustTimeToCurrentCycle applied to a normalized boundary gives that
\* boundary again (route.ts, part_000, part_001).
C18_NormalizationIdempotent ==
    (Classified /\ Normalizes(variant))
    => \A f \in DOMAIN adjustedCycle :
            adjustTimeToCurrentCycle(CycleStart, userNow, adjustedCycle[f])
                = adjustedCycle[f]

\* C19: a row that is still in a device call (slow, waiting in the backoff
\* of retryApiCall, or never returning) or in a credential call does not keep
\* the next row of the list from being taken.
C19_RowsDoNotBlock ==
    (pc \in DeviceOps \cup {"refresh", "persist"} /\ idx < profileCount)
    => ENABLED NextProfile

\* a failed power-on of the current row's evaluation is on record
OnFailed == \E k \in 1..Len(log) : log[k].op = "on" /\ log[k].result = "thrown"

\* C20: when power-on was needed and failed (after its retries, where
\* retried) and the reported level differs from the target, set-level is
\* still attempted in that evaluation.
C20_SetLevelIndependent ==
    (/\ RowDone
     /\ ~testMode
     /\ OnFailed
     /\ heatingStatus.source = "device" => heatingStatus.heatingLevel # targetLevel.level)
    => Issued("set")

(***************************************************************************)
(* part_002 beside part_001.                                               *)
(***************************************************************************)
\* a bed that is heating, at a level no profile asks for
HeatingElsewhere == [source |-> "device", isHeating |-> TRUE, heatingLevel |-> 1]

\* what a version decides for a profile and an instant, the bed heating: the
\* target level, or a power-off
Decision(v, p, now) ==
    LET c == AdjustCycle(v, now, createSleepCycle(v, now, p.bedTime, p.wakeupTime))
        tgt == ResolveTarget(v, c, now, DetectStage(v, c, now), p)
    IN  [target |-> tgt,
         off |-> ~tgt.resolved /\ PowerOffDue(v, c, now, HeatingElsewhere)]

\* C21: for every profile and instant and a bed that is heating, part_002
\* decides as part_001 does: the same target level inside a stage, a
\* power-off after wakeTime.  Stated for sleep spans of more than 3 h and at
\* most 12 h only, where the windows are well formed.
C21_Part2AsPart1 ==
    (/\ Classified
     /\ variant = Part2
     /\ SleepSpan(profile) > 180
     /\ SleepSpan(profile) <= 720)
    => /\ targetLevel = Decision(Part2, profile, userNow).target
       /\ Decision(Part2, profile, userNow) = Decision(Part1, profile, userNow)

(***************************************************************************)
(* The device calls of one row.                                            *)
(***************************************************************************)
\* calls of one kind made for the current row, the one under way included
Commands(op) ==
    Cardinality({k \in 1..Len(log) : log[k].op = op})
        + (IF idx > 0 /\ pc = op THEN 1 ELSE 0)

\* C23: for one row of one run, a power-off never comes with a power-on or a
\* set-level, there is at most one call of each kind (status read, power-on,
\* set-level, power-off), and no call is attempted more than 3 times.
C23_CommandsBoundedExclusive ==
    /\ \A op \in DeviceOps : Commands(op) <= 1
    /\ \A k \in 1..Len(log) : log[k].attempts <= Retries
    /\ retryI < Retries
    /\ Commands("off") = 0 \/ (Commands("on") = 0 /\ Commands("set") = 0)

\* a row that was switched on at the third attempt and then given its level
C23_Witness ==
    /\ RowDone
    /\ Issued("on")
    /\ Issued("set")
    /\ \E k \in 1..Len(log) : log[k].op = "on" /\ log[k].attempts = Retries

(***************************************************************************)
(* Who may start a run.                                                    *)
(***************************************************************************)
\* the header is "Bearer " followed by the configured secret
BearsTheSecret ==
    cronSecret.defined /\ authHeader = Header("Bearer ", cronSecret.string)

\* GET went on to adjustTemperature: the profile query, then the device calls
RunStarted == pc = "fetch" \/ fetch # "not yet" \/ idx > 0

\* C24: GET starts a run only when the authorization header is "Bearer "
\* followed by the configured CRON_SECRET; every other request is answered 401
\* with no database read and no device call; with no CRON_SECRET configured
\* no request is let through.
C24_OnlyTheSecretStartsRun ==
    /\ RunStarted => BearsTheSecret
    /\ (pc # "request" /\ ~BearsTheSecret)
        => /\ response = "401 Unauthorized"
           /\ fetch = "not yet"
           /\ idx = 0
           /\ log = <<>>
    /\ ~cronSecret.defined => ~authorized

(***************************************************************************)
(* route.ts called again and again: one row, evaluated every few minutes   *)
(* around its wakeupTime, no collaborator call failing.                    *)
(***************************************************************************)
\* the bed after the device writes of one evaluation
RECURSIVE DeviceAfter(_, _)
DeviceAfter(d, calls) ==
    IF calls = <<>> THEN d
    ELSE LET call == Head(calls)
             after == IF call.result # "returned" THEN d
                      ELSE IF call.op = "on" THEN [d EXCEPT !.isHeating = TRUE]
                      ELSE IF call.op = "set"
                           THEN [d EXCEPT !.heatingLevel = call.level]
                      ELSE IF call.op = "off" THEN [d EXCEPT !.isHeating = FALSE]
                      ELSE d
         IN  DeviceAfter(after, Tail(calls))

\* minutes between one evaluation and the next
PollGaps == {5, 10, 15}

\* sleep spans of 8 h, 12 h, 3 h and half an hour, and one whose wake-up is
\* followed by midnight
PollProfiles ==
    {Profile(TimeString(22, 0), TimeString(6, 0)),
     Profile(TimeString(18, 0), TimeString(6, 0)),
     Profile(TimeString(3, 0), TimeString(6, 0)),
     Profile(TimeString(5, 30), TimeString(6, 0)),
     Profile(TimeString(14, 0), TimeString(23, 30))}

\* the wake-up the evaluations are made around
WakeInstant(p) == DayOne(p.wakeupTime.hours, p.wakeupTime.minutes)

\* the first evaluation is made at wakeupTime or shortly before
InitPoll ==
    /\ variant = Route
    /\ testMode = FALSE
    /\ profile \in PollProfiles
    /\ userNow \in {WakeInstant(profile) - g : g \in PollGaps \cup {0}}
    /\ cronSecret = TheSecret
    /\ authHeader = Header("Bearer ", InterpolatedString(cronSecret))
    /\ authorized = TRUE
    /\ fetch = "returned"
    /\ pc = "cycle"
    /\ device \in Devices
    /\ profileCount = 1
    /\ idx = 1
    /\ bodyRuns = <<1>>
    /\ adjustedCycle = NoCycle
    /\ currentSleepStage = ""
    /\ targetLevel = NoTarget
    /\ token = "stored"
    /\ persisted = FALSE
    /\ heatingStatus = NoStatus
    /\ retryI = 0
    /\ waits = <<>>
    /\ log = <<>>
    /\ threw = "nothing"
    /\ caught = {}
    /\ failures = MaxFailures
    /\ propagated = FALSE
    /\ response = "none"

\* the next GET, a few minutes later: the same row is evaluated again, the
\* bed being as the last evaluation left it
PollAgain ==
    /\ pc = "loop"
    /\ idx = profileCount
    /\ userNow < WakeInstant(profile) + 60
    /\ userNow' \in {userNow + g : g \in PollGaps}
    /\ device' = DeviceAfter(device, log)
    /\ heatingStatus' = NoStatus
    /\ adjustedCycle' = NoCycle
    /\ currentSleepStage' = ""
    /\ targetLevel' = NoTarget
    /\ retryI' = 0
    /\ waits' = <<>>
    /\ log' = <<>>
    /\ threw' = "nothing"
    /\ pc' = "cycle"
    /\ UNCHANGED <<variant, testMode, authHeader, cronSecret, profile, runVars,
                   idx, token, persisted, caught, failures>>

NextPoll ==
    \/ Classify
    \/ ReadStatus
    \/ TurnOnSide
    \/ SetHeatingLevel
    \/ TurnOffSide
    \/ PollAgain

SpecPoll == InitPoll /\ [][NextPoll]_vars /\ WF_vars(NextPoll)

\* C22: route.ts evaluated at most 15 minutes apart, no call failing, the
\* sleep span at most 12 h: a bed that is heating at wakeTime is sent a
\* power-off by an evaluation made no later than 30 minutes after wakeTime.
C22_OffWithinHalfHour ==
    (/\ pc = "cycle"
     /\ userNow <= WakeInstant(profile)
     /\ device.isHeating
     /\ SleepSpan(profile) <= 720)
    ~> (Issued("off") /\ userNow <= WakeInstant(profile) + 30)

====
